---- MODULE Spec2Model ----
(***************************************************************************)
(* Model of common::stylesheet (src/src/common/stylesheet.rs): a registry  *)
(* of named console styles with add_style, freeze, println and print.      *)
(*                                                                         *)
(* A console::Style is modelled by the three fields the crate keeps for    *)
(* it: the foreground colour, the background colour and the ordered set of *)
(* attributes.  An Option is modelled by the string "None" or the value.   *)
(* A panic is modelled by the panic message in `result`; a call that       *)
(* returns normally leaves "ok" there.                                     *)
(***************************************************************************)
EXTENDS FiniteSets, Integers, Sequences, TLC

VARIABLES
    styles,          \* Stylesheet.styles: style name -> Style
    is_frozen,       \* Stylesheet.is_frozen
    colors_enabled,  \* whether the console crate emits escape codes (terminal capability)
    call,            \* the last call made on the stylesheet, with its arguments
                     \* (and, for add_style, whether the insert replaced an entry)
    result,          \* "ok", or the panic message of the last call
    stdout,          \* what the last call wrote to standard output, as a sequence of tokens
    added            \* history: the names add_style has returned normally for since new()

vars == <<styles, is_frozen, colors_enabled, call, result, stdout, added>>

----------------------------------------------------------------------------
(* Bounds and input sets *)

\* longest transformation vector of a generated style definition
MaxTrans == 2

\* style names passed to add_style
StyleNames == {"_default", "danger", "info"}

\* style names passed to println and print
RenderNames == StyleNames \cup {"missing"}

\* messages passed to println and print
Messages == {"", "ALERT"}

----------------------------------------------------------------------------
(* The style definition model *)

StyleTransformation == {"Blink", "Bold", "Italic", "Underlined"}

StyleColor ==
    {"DefaultColor", "Black", "White", "Red", "Green", "Blue", "Cyan", "Magenta", "Yellow"}

\* Option<StyleColor>
OptionStyleColor == {"None"} \cup StyleColor

\* Vec<StyleTransformation> of at most n elements
VecStyleTransformation(n) == UNION {[1..k -> StyleTransformation] : k \in 0..n}

\* every StyleProperties value whose vector has at most MaxTrans elements
StyleProperties ==
    [transformation : VecStyleTransformation(MaxTrans),
     color : OptionStyleColor,
     background : OptionStyleColor]

\* the style definitions the tests, the doc examples and the callers build
SheetDefinitions ==
    { [transformation |-> <<>>, color |-> "None", background |-> "None"],
      [transformation |-> <<>>, color |-> "DefaultColor", background |-> "DefaultColor"],
      [transformation |-> <<"Bold", "Underlined">>, color |-> "Blue", background |-> "White"],
      [transformation |-> <<"Bold", "Blink">>, color |-> "Red", background |-> "White"],
      [transformation |-> <<>>, color |-> "Green", background |-> "None"],
      [transformation |-> <<"Bold">>, color |-> "None", background |-> "None"],
      [transformation |-> <<"Italic">>, color |-> "None", background |-> "None"] }

----------------------------------------------------------------------------
(* console::Style, as the stylesheet uses it *)

\* Style::new()
StyleNew == [fg |-> "None", bg |-> "None", attrs |-> {}]

\* attr that switches the attribute off when it is on already
attr_toggle(style, a) ==
    [style EXCEPT !.attrs = IF a \in @ THEN @ \ {a} ELSE @ \cup {a}]

\* Style::attr, behind blink(), bold(), italic() and underlined()
attr(style, a) == [style EXCEPT !.attrs = @ \cup {a}]

\* Style::fg, behind black(), white(), red(), ...
fg(style, c) == [style EXCEPT !.fg = c]

\* Style::bg, behind on_black(), on_white(), on_red(), ...
bg(style, c) == [style EXCEPT !.bg = c]

\* Color::ansi_num
ColorAnsiNum(c) ==
    CASE c = "Black" -> 0
      [] c = "Red" -> 1
      [] c = "Green" -> 2
      [] c = "Yellow" -> 3
      [] c = "Blue" -> 4
      [] c = "Magenta" -> 5
      [] c = "Cyan" -> 6
      [] c = "White" -> 7

\* Attribute::ansi_num; the attribute set is ordered by it
AttributeAnsiNum(a) ==
    CASE a = "Bold" -> 1
      [] a = "Dim" -> 2
      [] a = "Italic" -> 3
      [] a = "Underlined" -> 4
      [] a = "Blink" -> 5
      [] a = "Reverse" -> 7
      [] a = "Hidden" -> 8

\* the escape sequence ESC [ n m
Sgr(n) == "ESC[" \o ToString(n) \o "m"

\* the attributes of a set in ascending order, as the ordered set iterates
RECURSIVE AttrsInOrder(_)
AttrsInOrder(as) ==
    IF as = {} THEN <<>>
    ELSE LET a == CHOOSE x \in as : \A y \in as : AttributeAnsiNum(x) <= AttributeAnsiNum(y)
         IN <<a>> \o AttrsInOrder(as \ {a})

\* Display of style.apply_to(message): the codes, the text, and a reset when
\* a code was written; no code at all when colours are disabled
apply_to(style, message, enabled) ==
    LET fgc == IF enabled /\ style.fg # "None"
               THEN <<Sgr(ColorAnsiNum(style.fg) + 30)>> ELSE <<>>
        bgc == IF enabled /\ style.bg # "None"
               THEN <<Sgr(ColorAnsiNum(style.bg) + 40)>> ELSE <<>>
        ord == IF enabled THEN AttrsInOrder(style.attrs) ELSE <<>>
        atc == [i \in 1..Len(ord) |-> Sgr(AttributeAnsiNum(ord[i]))]
        codes == fgc \o bgc \o atc
    IN codes \o <<message>> \o (IF codes # <<>> THEN <<Sgr(0)>> ELSE <<>>)

----------------------------------------------------------------------------
(* Stylesheet *)

DEFAULT_STYLE == "_default"

\* the messages of the two panics the stylesheet can raise
PanicFrozen == "FATAL: Trying to add a style to a frozen Stylesheet"
PanicUnwrap == "called Option::unwrap() on a None value"

\* HashMap::insert
insert(map, k, v) == [x \in (DOMAIN map) \cup {k} |-> IF x = k THEN v ELSE map[x]]

\* new() without the insertion of the default style
new_empty == [styles |-> <<>>, is_frozen |-> FALSE]

\* Stylesheet::new
new == [styles |-> (DEFAULT_STYLE :> StyleNew), is_frozen |-> FALSE]

\* Stylesheet::len
len(self) == Cardinality(DOMAIN self.styles)

\* Stylesheet::contains
contains(self, style_name) == style_name \in DOMAIN self.styles

\* the match with the Italic arm calling underlined()
apply_transformation_swapped(style, s) ==
    CASE s = "Blink" -> attr(style, "Blink")
      [] s = "Bold" -> attr(style, "Bold")
      [] s = "Italic" -> attr(style, "Underlined")
      [] s = "Underlined" -> attr(style, "Underlined")

\* the match with every arm starting again from Style::new()
apply_transformation_restart(style, s) ==
    CASE s = "Blink" -> attr(StyleNew, "Blink")
      [] s = "Bold" -> attr(StyleNew, "Bold")
      [] s = "Italic" -> attr(StyleNew, "Italic")
      [] s = "Underlined" -> attr(StyleNew, "Underlined")

\* one arm of the match on a transformation
apply_transformation(style, s) ==
    CASE s = "Blink" -> attr(style, "Blink")
      [] s = "Bold" -> attr(style, "Bold")
      [] s = "Italic" -> attr(style, "Italic")
      [] s = "Underlined" -> attr(style, "Underlined")

\* the loop over style_definition.transformation
RECURSIVE apply_transformations(_, _)
apply_transformations(style, transformation) ==
    IF transformation = <<>> THEN style
    ELSE apply_transformations(apply_transformation(style, Head(transformation)),
                               Tail(transformation))

\* the match on the text colour with DefaultColor taken for white
apply_color_default_white(style, color) ==
    CASE color = "DefaultColor" -> fg(style, "White")
      [] color = "Black" -> fg(style, "Black")
      [] color = "White" -> fg(style, "White")
      [] color = "Red" -> fg(style, "Red")
      [] color = "Green" -> fg(style, "Green")
      [] color = "Blue" -> fg(style, "Blue")
      [] color = "Cyan" -> fg(style, "Cyan")
      [] color = "Magenta" -> fg(style, "Magenta")
      [] color = "Yellow" -> fg(style, "Yellow")

\* the match on the text colour
apply_color(style, color) ==
    CASE color = "DefaultColor" -> style
      [] color = "Black" -> fg(style, "Black")
      [] color = "White" -> fg(style, "White")
      [] color = "Red" -> fg(style, "Red")
      [] color = "Green" -> fg(style, "Green")
      [] color = "Blue" -> fg(style, "Blue")
      [] color = "Cyan" -> fg(style, "Cyan")
      [] color = "Magenta" -> fg(style, "Magenta")
      [] color = "Yellow" -> fg(style, "Yellow")

\* the match on the background colour calling red() for on_red(), and so on
apply_background_as_fg(style, color) ==
    CASE color = "DefaultColor" -> style
      [] color = "Black" -> fg(style, "Black")
      [] color = "White" -> fg(style, "White")
      [] color = "Red" -> fg(style, "Red")
      [] color = "Green" -> fg(style, "Green")
      [] color = "Blue" -> fg(style, "Blue")
      [] color = "Cyan" -> fg(style, "Cyan")
      [] color = "Magenta" -> fg(style, "Magenta")
      [] color = "Yellow" -> fg(style, "Yellow")

\* the match on the background colour
apply_background(style, color) ==
    CASE color = "DefaultColor" -> style
      [] color = "Black" -> bg(style, "Black")
      [] color = "White" -> bg(style, "White")
      [] color = "Red" -> bg(style, "Red")
      [] color = "Green" -> bg(style, "Green")
      [] color = "Blue" -> bg(style, "Blue")
      [] color = "Cyan" -> bg(style, "Cyan")
      [] color = "Magenta" -> bg(style, "Magenta")
      [] color = "Yellow" -> bg(style, "Yellow")

\* the style add_style builds from a definition, starting from Style::new()
build_style(style_definition) ==
    LET s1 == apply_transformations(StyleNew, style_definition.transformation)
        s2 == IF style_definition.color # "None"
              THEN apply_color(s1, style_definition.color) ELSE s1
    IN IF style_definition.background # "None"
       THEN apply_background(s2, style_definition.background) ELSE s2

\* add_style without the check of is_frozen
add_style_unchecked(self, style_name, style_definition) ==
    [self |-> [self EXCEPT !.styles =
                  insert(@, style_name, build_style(style_definition))],
     result |-> "ok",
     replaced |-> style_name \in DOMAIN self.styles]

\* add_style that keeps the style of a name already present
add_style_keep(self, style_name, style_definition) ==
    IF self.is_frozen
    THEN [self |-> self, result |-> PanicFrozen, replaced |-> FALSE]
    ELSE [self |-> [self EXCEPT !.styles =
                        IF style_name \in DOMAIN @ THEN @
                        ELSE insert(@, style_name, build_style(style_definition))],
          result |-> "ok",
          replaced |-> style_name \in DOMAIN self.styles]

\* add_style that tests is_frozen after the insertion
add_style_late_check(self, style_name, style_definition) ==
    [self |-> [self EXCEPT !.styles =
                  insert(@, style_name, build_style(style_definition))],
     result |-> IF self.is_frozen THEN PanicFrozen ELSE "ok",
     replaced |-> style_name \in DOMAIN self.styles]

\* add_style that builds its map afresh, as new() does, before the insertion
add_style_fresh_map(self, style_name, style_definition) ==
    IF self.is_frozen
    THEN [self |-> self, result |-> PanicFrozen, replaced |-> FALSE]
    ELSE [self |-> [self EXCEPT !.styles =
                        insert(new.styles, style_name, build_style(style_definition))],
          result |-> "ok",
          replaced |-> style_name \in DOMAIN self.styles]

\* add_style that drops the entry of a name whose definition asks for nothing,
\* leaving the name to the fallback
add_style_drop_empty(self, style_name, style_definition) ==
    IF self.is_frozen
    THEN [self |-> self, result |-> PanicFrozen, replaced |-> FALSE]
    ELSE [self |-> [self EXCEPT !.styles =
                        IF build_style(style_definition) = StyleNew
                        THEN [x \in (DOMAIN @) \ {style_name} |-> @[x]]
                        ELSE insert(@, style_name, build_style(style_definition))],
          result |-> "ok",
          replaced |-> style_name \in DOMAIN self.styles]

\* Stylesheet::add_style; `replaced` is whether HashMap::insert found the key
\* (it returns the old value then, which add_style drops)
add_style(self, style_name, style_definition) ==
    IF self.is_frozen
    THEN [self |-> self, result |-> PanicFrozen, replaced |-> FALSE]
    ELSE [self |-> [self EXCEPT !.styles =
                        insert(@, style_name, build_style(style_definition))],
          result |-> "ok",
          replaced |-> style_name \in DOMAIN self.styles]

\* freeze() that flips the flag
freeze_toggle(self) == [self |-> [self EXCEPT !.is_frozen = ~@], result |-> "ok"]

\* freeze() that complains when the stylesheet is frozen already
freeze_once(self) ==
    IF self.is_frozen
    THEN [self |-> self, result |-> PanicFrozen]
    ELSE [self |-> [self EXCEPT !.is_frozen = TRUE], result |-> "ok"]

\* freeze() that also empties the map down to the default style
freeze_clear(self) ==
    [self |-> [styles |-> new.styles, is_frozen |-> TRUE], result |-> "ok"]

\* Stylesheet::freeze
freeze(self) == [self |-> [self EXCEPT !.is_frozen = TRUE], result |-> "ok"]

\* println() without the fallback to the default style
println_no_fallback(self, style_name, message, enabled) ==
    IF style_name \notin DOMAIN self.styles
    THEN [result |-> PanicUnwrap, stdout |-> <<>>]
    ELSE [result |-> "ok",
          stdout |-> apply_to(self.styles[style_name], message, enabled) \o <<"\n">>]

\* Stylesheet::println
println(self, style_name, message, enabled) ==
    LET name == IF ~contains(self, style_name) THEN DEFAULT_STYLE ELSE style_name
    IN IF name \notin DOMAIN self.styles
       THEN [result |-> PanicUnwrap, stdout |-> <<>>]
       ELSE [result |-> "ok",
             stdout |-> apply_to(self.styles[name], message, enabled) \o <<"\n">>]

\* print() without the fallback to the default style
print_no_fallback(self, style_name, message, enabled) ==
    IF style_name \notin DOMAIN self.styles
    THEN [result |-> PanicUnwrap, stdout |-> <<>>]
    ELSE [result |-> "ok",
          stdout |-> apply_to(self.styles[style_name], message, enabled) \o <<"\n">>]

\* Stylesheet::print
print(self, style_name, message, enabled) ==
    LET name == IF ~contains(self, style_name) THEN DEFAULT_STYLE ELSE style_name
    IN IF name \notin DOMAIN self.styles
       THEN [result |-> PanicUnwrap, stdout |-> <<>>]
       ELSE [result |-> "ok",
             stdout |-> apply_to(self.styles[name], message, enabled) \o <<"\n">>]

----------------------------------------------------------------------------
(* The state machine *)

\* the stylesheet the variables hold
Self == [styles |-> styles, is_frozen |-> is_frozen]

Init ==
    /\ styles = new.styles
    /\ is_frozen = new.is_frozen
    /\ colors_enabled \in BOOLEAN
    /\ call = [op |-> "new"]
    /\ result = "ok"
    /\ stdout = <<>>
    /\ added = {}

\* the caller replaces its stylesheet by Stylesheet::new()
CallNew ==
    /\ styles' = new.styles
    /\ is_frozen' = new.is_frozen
    /\ call' = [op |-> "new"]
    /\ result' = "ok"
    /\ stdout' = <<>>
    /\ added' = {}
    /\ UNCHANGED colors_enabled

CallAddStyle(style_name, style_definition) ==
    LET r == add_style(Self, style_name, style_definition)
    IN /\ styles' = r.self.styles
       /\ is_frozen' = r.self.is_frozen
       /\ call' = [op |-> "add_style", style_name |-> style_name,
                   style_definition |-> style_definition, replaced |-> r.replaced]
       /\ result' = r.result
       /\ stdout' = <<>>
       /\ added' = IF r.result = "ok" THEN added \cup {style_name} ELSE added
       /\ UNCHANGED colors_enabled

CallFreeze ==
    LET r == freeze(Self)
    IN /\ styles' = r.self.styles
       /\ is_frozen' = r.self.is_frozen
       /\ call' = [op |-> "freeze"]
       /\ result' = r.result
       /\ stdout' = <<>>
       /\ UNCHANGED <<colors_enabled, added>>

CallPrintln(style_name, message) ==
    LET r == println(Self, style_name, message, colors_enabled)
    IN /\ call' = [op |-> "println", style_name |-> style_name, message |-> message]
       /\ result' = r.result
       /\ stdout' = r.stdout
       /\ UNCHANGED <<styles, is_frozen, colors_enabled, added>>

CallPrint(style_name, message) ==
    LET r == print(Self, style_name, message, colors_enabled)
    IN /\ call' = [op |-> "print", style_name |-> style_name, message |-> message]
       /\ result' = r.result
       /\ stdout' = r.stdout
       /\ UNCHANGED <<styles, is_frozen, colors_enabled, added>>

Next ==
    \/ CallNew
    \/ \E n \in StyleNames, d \in SheetDefinitions : CallAddStyle(n, d)
    \/ CallFreeze
    \/ \E n \in RenderNames, m \in Messages : CallPrintln(n, m)
    \/ \E n \in RenderNames, m \in Messages : CallPrint(n, m)

Spec == Init /\ [][Next]_vars

\* new(), then one add_style with any definition, then rendering: the
\* definitions range over all of StyleProperties
NextResolve ==
    \/ CallNew
    \/ call.op = "new" /\ \E d \in StyleProperties : CallAddStyle("danger", d)
    \/ \E n \in {"danger", "missing"}, m \in Messages : CallPrintln(n, m)
    \/ \E n \in {"danger", "missing"}, m \in Messages : CallPrint(n, m)

SpecResolve == Init /\ [][NextResolve]_vars

----------------------------------------------------------------------------
TypeOK ==
    /\ is_frozen \in BOOLEAN
    /\ colors_enabled \in BOOLEAN
    /\ DOMAIN styles \subseteq StyleNames
    /\ call.op \in {"new", "add_style", "freeze", "println", "print"}
    /\ result \in {"ok", PanicFrozen, PanicUnwrap}
    /\ added \subseteq StyleNames

----------------------------------------------------------------------------
(* Vocabulary of the properties *)

\* the style with no transformation, no foreground and no background
Unstyled == [fg |-> "None", bg |-> "None", attrs |-> {}]

\* the last call was println or print
Rendered == call.op \in {"println", "print"}

\* the tokens of stdout before position k
Before(k) == {stdout[i] : i \in 1..(k - 1)}

\* the escape codes that stand for a style
CodesOf(style) ==
    (IF style.fg = "None" THEN {} ELSE {Sgr(30 + ColorAnsiNum(style.fg))})
    \cup (IF style.bg = "None" THEN {} ELSE {Sgr(40 + ColorAnsiNum(style.bg))})
    \cup {Sgr(AttributeAnsiNum(a)) : a \in style.attrs}

\* the transformations a definition asks for
RequestedAttrs(d) == {d.transformation[i] : i \in DOMAIN d.transformation}

\* the colour a definition asks for: none where absent or DefaultColor
RequestedColor(c) == IF c \in {"None", "DefaultColor"} THEN "None" ELSE c

\* style is exactly what definition d asks for
Reflects(style, d) ==
    /\ style.attrs = RequestedAttrs(d)
    /\ style.fg = RequestedColor(d.color)
    /\ style.bg = RequestedColor(d.background)

\* the last call was an add_style that returned
Added == call.op = "add_style" /\ result = "ok"

\* the rearrangements of a sequence
Rearranged(seq) ==
    {[i \in 1..Len(seq) |-> seq[f[i]]] : f \in Permutations(1..Len(seq))}

\* a sequence without its repeated elements (the first of each is kept)
RECURSIVE WithoutDuplicates(_)
WithoutDuplicates(seq) ==
    IF seq = <<>> THEN <<>>
    ELSE LET front == WithoutDuplicates(SubSeq(seq, 1, Len(seq) - 1))
             last == seq[Len(seq)]
         IN IF \E i \in 1..Len(front) : front[i] = last
            THEN front ELSE Append(front, last)

\* the style a fresh stylesheet holds under name n after add_style(n, d)
Registered(n, d) == add_style(new, n, d).self.styles[n]

\* a stylesheet that holds style s under name n renders n, in both variants
\* and for every message, as the current stylesheet does
RendersAlike(n, s) ==
    LET other == [styles |-> insert(styles, n, s), is_frozen |-> is_frozen]
    IN \A m \in Messages :
          /\ println(other, n, m, colors_enabled) = println(Self, n, m, colors_enabled)
          /\ print(other, n, m, colors_enabled) = print(Self, n, m, colors_enabled)

----------------------------------------------------------------------------
(* C1: on a frozen stylesheet every add_style call, whatever the name and  *)
(* the definition, panics with the FATAL message and leaves the mapping    *)
(* and the frozen flag as they were.                                       *)
C1_AddStyleOnFrozenIsFatal ==
    [][ (is_frozen /\ call'.op = "add_style")
          => /\ result' = PanicFrozen
             /\ styles' = styles
             /\ is_frozen' = is_frozen ]_vars

\* a frozen stylesheet refused to replace a registered style
C1_Witness ==
    /\ call.op = "add_style"
    /\ is_frozen
    /\ result = PanicFrozen
    /\ call.style_name = "danger"
    /\ "danger" \in DOMAIN styles

(* C2: the style under the reserved default key is always the unstyled     *)
(* style, whatever add_style calls were made, so a name that was never     *)
(* registered is rendered with no styling at all.                          *)
C2_DefaultStyleIsAlwaysUnstyled ==
    /\ DEFAULT_STYLE \in DOMAIN styles
    /\ styles[DEFAULT_STYLE] = Unstyled
    /\ (Rendered /\ call.style_name \notin DOMAIN styles)
          => (result = "ok" /\ stdout[1] = call.message)

(* C3: println emits the styled message followed by a line terminator and  *)
(* print emits the same styled message with no line terminator.            *)
C3_PrintOmitsTerminator ==
    LET name == IF call.style_name \in DOMAIN styles
                THEN call.style_name ELSE DEFAULT_STYLE
        styled == apply_to(styles[name], call.message, colors_enabled)
    IN /\ (call.op = "println" /\ result = "ok") => stdout = styled \o <<"\n">>
       /\ (call.op = "print" /\ result = "ok") => stdout = styled

(* C4: rendering a name that is not a key of the mapping raises no error   *)
(* and writes exactly what rendering the default key writes for the same   *)
(* message: a render of an unknown name followed by the same render of the *)
(* default key yields the same result and the same output.                 *)
C4_UnknownNameRendersAsDefault ==
    [][ (/\ Rendered
         /\ call.style_name \notin DOMAIN styles
         /\ call'.op = call.op
         /\ call'.message = call.message
         /\ call'.style_name = DEFAULT_STYLE)
          => (result = "ok" /\ result' = "ok" /\ stdout' = stdout) ]_vars

\* an unknown name was rendered by a stylesheet that holds other styles
C4_Witness ==
    /\ call.op = "print"
    /\ call.style_name = "missing"
    /\ call.message = "ALERT"
    /\ "danger" \in DOMAIN styles
    /\ result = "ok"
    /\ stdout # <<>>

(* C5: println and print never panic, frozen or not, whatever the name and *)
(* the message (the empty one included): the name they look up, the given  *)
(* one or the default key, is always a key of the mapping.                 *)
C5_RenderNeverFails ==
    /\ Rendered => (result = "ok" /\ \E k \in 1..Len(stdout) : stdout[k] = call.message)
    /\ \A n \in RenderNames :
          (IF n \in DOMAIN styles THEN n ELSE DEFAULT_STYLE) \in DOMAIN styles

\* a frozen stylesheet rendered the empty message under an unknown name
C5_Witness ==
    /\ call.op = "println"
    /\ is_frozen
    /\ call.style_name = "missing"
    /\ call.message = ""
    /\ result = "ok"

(* C6: the frozen flag of a stylesheet is false at creation, only freeze() *)
(* sets it, and once it is true no add_style, freeze, println or print     *)
(* call sets it back to false.  (new() yields another stylesheet.)         *)
C6_FrozenIsMonotone ==
    /\ [](call.op = "new" => ~is_frozen)
    /\ [][ call'.op # "new"
             => /\ is_frozen => is_frozen'
                /\ (~is_frozen /\ is_frozen') => call'.op = "freeze" ]_vars

\* a frozen stylesheet went through a failed add_style and is still frozen
C6_Witness ==
    /\ is_frozen
    /\ call.op = "add_style"
    /\ len(Self) > 1

(* C7: freeze() never fails and is idempotent: on a frozen stylesheet it   *)
(* raises no error and leaves the flag and the mapping as they were, so    *)
(* every (name, message) renders as before.                                *)
C7_FreezeIsIdempotent ==
    /\ [](call.op = "freeze" => (result = "ok" /\ is_frozen))
    /\ [][ (is_frozen /\ call'.op = "freeze")
             => /\ result' = "ok"
                /\ is_frozen'
                /\ styles' = styles
                /\ \A n \in RenderNames, m \in Messages :
                      /\ println([styles |-> styles', is_frozen |-> is_frozen'],
                                 n, m, colors_enabled')
                           = println(Self, n, m, colors_enabled)
                      /\ print([styles |-> styles', is_frozen |-> is_frozen'],
                               n, m, colors_enabled')
                           = print(Self, n, m, colors_enabled) ]_vars

\* freeze() returned on a stylesheet that holds registered styles
C7_Witness ==
    /\ call.op = "freeze"
    /\ is_frozen
    /\ result = "ok"
    /\ {"danger", "info"} \subseteq DOMAIN styles

(* C8: whenever new() has just been invoked the stylesheet holds exactly   *)
(* one entry, under the reserved default key, with the unstyled style, and *)
(* it is not frozen.                                                       *)
C8_NewHoldsOnlyDefault ==
    call.op = "new"
      => /\ len(Self) = 1
         /\ DOMAIN styles = {DEFAULT_STYLE}
         /\ styles[DEFAULT_STYLE] = Unstyled
         /\ ~is_frozen

\* new() has returned
C8_Witness ==
    /\ call.op = "new"
    /\ result = "ok"
    /\ contains(Self, DEFAULT_STYLE)

(* C9: on a stylesheet that is not frozen add_style does not fail, the     *)
(* mapping then contains the name, and its style carries exactly the       *)
(* requested transformations, foreground and background (none where absent *)
(* or DefaultColor); rendering under a registered name writes the codes of *)
(* exactly that style before the message when colours are enabled.         *)
C9_AddStyleReflectsDefinition ==
    /\ (call.op = "add_style" /\ ~is_frozen)
          => /\ result = "ok"
             /\ contains(Self, call.style_name)
             /\ Reflects(styles[call.style_name], call.style_definition)
    /\ (Rendered /\ contains(Self, call.style_name))
          => /\ result = "ok"
             /\ \E k \in 1..Len(stdout) :
                   /\ stdout[k] = call.message
                   /\ Before(k) = (IF colors_enabled
                                   THEN CodesOf(styles[call.style_name]) ELSE {})
                   /\ k - 1 = Cardinality(Before(k))

\* a style with two transformations and both colours was registered
C9_Witness ==
    /\ call.op = "add_style"
    /\ result = "ok"
    /\ call.style_definition =
          [transformation |-> <<"Italic", "Blink">>, color |-> "Cyan",
           background |-> "Yellow"]
    /\ styles[call.style_name] =
          [fg |-> "Cyan", bg |-> "Yellow", attrs |-> {"Blink", "Italic"}]

(* C10: on a stylesheet that is not frozen, add_style under a name already *)
(* present does not fail, leaves under that name exactly the style of the  *)
(* new definition, with nothing of the former one, and does not change the *)
(* number of entries.                                                      *)
C10_ReAddReplaces ==
    [][ (/\ ~is_frozen
         /\ call'.op = "add_style"
         /\ contains(Self, call'.style_name))
          => /\ result' = "ok"
             /\ call'.replaced
             /\ Reflects(styles'[call'.style_name], call'.style_definition)
             /\ Cardinality(DOMAIN styles') = Cardinality(DOMAIN styles) ]_vars

\* "danger" was registered again, with Italic alone
C10_Witness ==
    /\ call.op = "add_style"
    /\ call.style_name = "danger"
    /\ call.replaced
    /\ result = "ok"
    /\ call.style_definition.transformation = <<"Italic">>
    /\ styles["danger"].attrs = {"Italic"}

(* C11: the order of the transformations does not matter: whenever         *)
(* add_style has registered a definition, registering any rearrangement of *)
(* its transformations, with the same colours, is accepted too, gives the  *)
(* same style and renders the same output.                                 *)
C11_TransformationOrderIsIrrelevant ==
    Added =>
      \A t \in Rearranged(call.style_definition.transformation) :
         LET d == [call.style_definition EXCEPT !.transformation = t]
         IN /\ add_style(new, call.style_name, d).result = "ok"
            /\ Registered(call.style_name, d) = styles[call.style_name]
            /\ RendersAlike(call.style_name, Registered(call.style_name, d))

\* [Underlined, Bold] was registered and holds both attributes
C11_Witness ==
    /\ Added
    /\ call.style_definition.transformation = <<"Underlined", "Bold">>
    /\ styles[call.style_name].attrs = {"Bold", "Underlined"}

(* C12: once the stylesheet is frozen its mapping stays the same through   *)
(* every later add_style, freeze, println and print call, so every         *)
(* (name, message) renders after the call as it did before it (compared   *)
(* across the calls that are not themselves renders).                      *)
C12_FrozenMappingIsConstant ==
    [][ (is_frozen /\ call'.op # "new")
          => /\ styles' = styles
             /\ call'.op \in {"add_style", "freeze"}
                  => \A n \in RenderNames, m \in Messages :
                        /\ println([styles |-> styles', is_frozen |-> is_frozen'],
                                   n, m, colors_enabled').stdout
                             = println(Self, n, m, colors_enabled).stdout
                        /\ print([styles |-> styles', is_frozen |-> is_frozen'],
                                 n, m, colors_enabled').stdout
                             = print(Self, n, m, colors_enabled).stdout ]_vars

\* a frozen stylesheet rendered a style registered before the freeze
C12_Witness ==
    /\ is_frozen
    /\ call.op = "print"
    /\ call.style_name = "info"
    /\ "info" \in DOMAIN styles
    /\ styles["info"] # Unstyled
    /\ result = "ok"

(* C13: an explicit DefaultColor is observably the same as no colour:      *)
(* whenever add_style has registered a definition whose foreground (or     *)
(* background) is absent or DefaultColor, registering it with the other of *)
(* the two is accepted too, gives the same style and renders the same      *)
(* output.                                                                 *)
C13_DefaultColorIsLikeNone ==
    Added =>
      LET d == call.style_definition
          Other(c) == IF c = "None" THEN "DefaultColor" ELSE "None"
          Same(e) ==
             /\ add_style(new, call.style_name, e).result = "ok"
             /\ Registered(call.style_name, e) = styles[call.style_name]
             /\ RendersAlike(call.style_name, Registered(call.style_name, e))
      IN /\ d.color \in {"None", "DefaultColor"}
              => Same([d EXCEPT !.color = Other(d.color)])
         /\ d.background \in {"None", "DefaultColor"}
              => Same([d EXCEPT !.background = Other(d.background)])

\* a definition with an explicit DefaultColor foreground and no background
\* was registered, and its style has neither
C13_Witness ==
    /\ Added
    /\ call.style_definition.color = "DefaultColor"
    /\ call.style_definition.background = "None"
    /\ call.style_definition.transformation = <<"Bold">>
    /\ styles[call.style_name] = [fg |-> "None", bg |-> "None", attrs |-> {"Bold"}]

(* C14: applying a transformation more than once is idempotent: whenever   *)
(* add_style has registered a definition, the same definition with the     *)
(* repeated transformations removed gives the same style.                  *)
C14_RepeatedTransformationIsIdempotent ==
    Added =>
      LET d == [call.style_definition EXCEPT !.transformation = WithoutDuplicates(@)]
      IN /\ add_style(new, call.style_name, d).result = "ok"
         /\ Registered(call.style_name, d) = styles[call.style_name]
         /\ Cardinality(styles[call.style_name].attrs) = Len(d.transformation)

\* [Bold, Bold] was registered and the style is bold
C14_Witness ==
    /\ Added
    /\ call.style_definition.transformation = <<"Bold", "Bold">>
    /\ styles[call.style_name].attrs = {"Bold"}

(* C15: foreground and background are resolved independently: whenever     *)
(* add_style has registered a definition, changing its background to any   *)
(* other value leaves the foreground and the transformations of the style  *)
(* as they are, changing its foreground leaves the background and the      *)
(* transformations, and changing its transformations leaves both colours.  *)
C15_ForegroundAndBackgroundAreIndependent ==
    Added =>
      LET d == call.style_definition
          s == styles[call.style_name]
      IN /\ \A c \in OptionStyleColor :
               LET t == Registered(call.style_name, [d EXCEPT !.background = c])
               IN t.fg = s.fg /\ t.attrs = s.attrs
         /\ \A c \in OptionStyleColor :
               LET t == Registered(call.style_name, [d EXCEPT !.color = c])
               IN t.bg = s.bg /\ t.attrs = s.attrs
         /\ \A v \in VecStyleTransformation(MaxTrans) :
               LET t == Registered(call.style_name, [d EXCEPT !.transformation = v])
               IN t.fg = s.fg /\ t.bg = s.bg

\* a definition with a red foreground and a white background was registered
C15_Witness ==
    /\ Added
    /\ call.style_definition.color = "Red"
    /\ call.style_definition.background = "White"
    /\ styles[call.style_name].fg = "Red"
    /\ styles[call.style_name].bg = "White"

(* C16: an add_style call that returns changes only the entry of its name: *)
(* every entry under another key keeps its style, no entry is removed, the *)
(* keys are the former ones and the name, and the frozen flag is as it was. *)
C16_AddStyleChangesOnlyItsEntry ==
    [][ (call'.op = "add_style" /\ result' = "ok")
          => /\ \A k \in (DOMAIN styles) \ {call'.style_name} :
                   k \in DOMAIN styles' /\ styles'[k] = styles[k]
             /\ DOMAIN styles' = (DOMAIN styles) \cup {call'.style_name}
             /\ is_frozen' = is_frozen ]_vars

\* "info" was added to a stylesheet that holds a styled "danger"
C16_Witness ==
    /\ Added
    /\ call.style_name = "info"
    /\ ~call.replaced
    /\ "danger" \in DOMAIN styles
    /\ styles["danger"] # Unstyled
    /\ styles["info"] # styles["danger"]

(* C17: println and print leave the mapping and the frozen flag as they    *)
(* were, and freeze() leaves the mapping as it was.                        *)
C17_RenderAndFreezeKeepTheMapping ==
    [][ /\ call'.op \in {"println", "print"}
             => (styles' = styles /\ is_frozen' = is_frozen)
        /\ call'.op = "freeze" => styles' = styles ]_vars

\* a stylesheet that is not frozen rendered a registered, styled name
C17_Witness ==
    /\ call.op = "println"
    /\ ~is_frozen
    /\ call.style_name = "danger"
    /\ "danger" \in DOMAIN styles
    /\ styles["danger"] # Unstyled
    /\ colors_enabled
    /\ Len(stdout) > 2

(* C18: the mapping always contains the reserved default key, its keys are *)
(* never removed (they only grow, for one stylesheet), and their number is *)
(* one plus the number of distinct names other than the default key that   *)
(* add_style has returned normally for.                                    *)
C18_KeysOnlyGrow ==
    /\ [](/\ DEFAULT_STYLE \in DOMAIN styles
          /\ len(Self) = 1 + Cardinality(added \ {DEFAULT_STYLE})
          /\ DOMAIN styles = {DEFAULT_STYLE} \cup added)
    /\ [][ call'.op # "new" => (DOMAIN styles) \subseteq (DOMAIN styles') ]_vars

\* every name, the default key included, went through add_style: three keys
C18_Witness ==
    /\ added = StyleNames
    /\ len(Self) = 3
    /\ Added
    /\ call.replaced
====
